---- MODULE Spec2Model ----
(***************************************************************************)
(* Model of drivers/iio/common/nvs/nvs_light.c, the NVS ambient light      *)
(* sensor helper: nvs_light_enable, nvs_light_read, nvs_light_nld and      *)
(* nvs_light_interpolate operating on one struct nvs_light (nl) and its    *)
(* configuration (nl->cfg).                                                *)
(*                                                                         *)
(* Timestamps are nanoseconds, delay_us microseconds, poll_delay_ms        *)
(* milliseconds, exactly as in the source.  TLC's integers are 32 bit      *)
(* signed, so the model keeps every integer below 2^31: the time horizon   *)
(* is MaxTime and the unsigned all-ones value is UINT_ONES.  The 64 bit    *)
(* arithmetic of nvs_light_interpolate is done on tuples of 16 bit parts.  *)
(***************************************************************************)
EXTENDS Integers, Sequences, FiniteSets, TLC

(* ------------------------------------------------------------------ *)
(* Bounds of the model                                                 *)
(* ------------------------------------------------------------------ *)

\* nl->hw_mask of the modelled part: raw readings are 0..HwMask
HwMask == 3

\* horizon of the caller's clock, in nanoseconds
MaxTime == 20000000

(* ------------------------------------------------------------------ *)
(* Program constants                                                   *)
(* ------------------------------------------------------------------ *)

\* return values of nvs_light_read (nvs_light.c:151-157)
RET_POLL_NEXT == -1

RET_NO_CHANGE == 0

RET_HW_UPDATE == 1

\* fixed point significance of scale and resolution (declared in nvs.h)
NVS_SCALE_SIGNIFICANCE == 1000000

\* (unsigned int)-1 as stored by nl->hw_thresh_lo = -1: the largest value
\* that is representable here; it is above every raw reading and mask
UINT_ONES == 2147483647

(* ------------------------------------------------------------------ *)
(* Inputs: the configurations a driver hands to the module             *)
(* ------------------------------------------------------------------ *)

\* struct nvs_light_dynamic nld_tbl[]: resolution, max_range, milliamp,
\* delay_min_ms per entry (indices 0..2 here)
nld_tbl == [i \in 0..2 |->
              CASE i = 0 -> [res_ival |-> 0, res_fval |-> 500000, max_ival |-> 100,
                             max_fval |-> 0, ma_ival |-> 0, ma_fval |-> 100000,
                             delay_min_ms |-> 20]
                [] i = 1 -> [res_ival |-> 1, res_fval |-> 0, max_ival |-> 1000,
                             max_fval |-> 0, ma_ival |-> 0, ma_fval |-> 100000,
                             delay_min_ms |-> 10]
                [] i = 2 -> [res_ival |-> 4, res_fval |-> 500000, max_ival |-> 4000,
                             max_fval |-> 0, ma_ival |-> 0, ma_fval |-> 100000,
                             delay_min_ms |-> 5]]

\* the sensors a driver is written for: whether there is a dynamic
\* resolution table (then with the index limits nvs_light_of_dt accepts,
\* nld_i_hi >= nld_i_lo), else cfg->resolution (0.5 or 2.0) and
\* cfg->delay_us_min; and the calibration anchors uncal_lo, uncal_hi,
\* cal_lo, cal_hi
Profiles ==
    {[has_tbl |-> FALSE, nld_i_lo |-> 0, nld_i_hi |-> 0, res_ival |-> 0,
      res_fval |-> 500000, delay_us_min |-> 5000, anchors |-> <<0, 0, 0, 0>>],
     [has_tbl |-> FALSE, nld_i_lo |-> 0, nld_i_hi |-> 0, res_ival |-> 2,
      res_fval |-> 0, delay_us_min |-> 20000, anchors |-> <<0, 100, 0, 1000>>],
     [has_tbl |-> TRUE, nld_i_lo |-> 0, nld_i_hi |-> 2, res_ival |-> 0,
      res_fval |-> 0, delay_us_min |-> 0, anchors |-> <<0, 0, 0, 0>>],
     [has_tbl |-> TRUE, nld_i_lo |-> 1, nld_i_hi |-> 2, res_ival |-> 0,
      res_fval |-> 0, delay_us_min |-> 0, anchors |-> <<0, 100, 0, 1000>>]}

\* cfg->scale: 1.0 (calibration mode), 0 (scale disabled), 0.5
Scales == {<<1, 0>>, <<0, 0>>, <<0, 500000>>}

\* cfg->report_n as configured (0 is normalised by nvs_light_enable)
ReportNs == {0, 1, 3}

\* cfg->thresh_lo and cfg->thresh_hi: HW value based deltas; a value that
\* is not below hw_mask disables the threshold
Thresholds == {<<1, 2>>, <<1, HwMask>>, <<HwMask, 1>>}

\* nl->delay_us the driver requests
DelayUs == {10000}

\* the steps of the caller's clock between two samples, ns
Deltas == {2500000, 10000000}

\* what an integer division by zero leaves in the destination
DivZeroResults == {0, 3}

(* ------------------------------------------------------------------ *)
(* Arithmetic helpers                                                  *)
(* ------------------------------------------------------------------ *)

\* C integer division truncates toward zero
TruncDiv(a, b) == IF (a >= 0) = (b > 0) THEN a \div b ELSE -((-a) \div b)

\* do_div(n, base) on operands known to be non-negative and below 2^31
\* (the elapsed time and the fractional lux part), where the unsigned 64
\* by 32 bit division is n / base
do_div(n, base) == n \div base

\* A 64 bit object (s64, u64) is the tuple of its four 16 bit parts, lowest
\* first; an unsigned int is the tuple of its two 16 bit parts.
Zero64 == <<0, 0, 0, 0>>

Zero32 == <<0, 0>>

\* the s64 holding the integer v (two's complement), |v| < 2^31
S64(v) ==
    IF v >= 0
    THEN <<v % 65536, v \div 65536, 0, 0>>
    ELSE <<65535 - ((-v - 1) % 65536), 65535 - ((-v - 1) \div 65536), 65535, 65535>>

\* the unsigned int holding the non-negative integer v
U32(v) == <<v % 65536, v \div 65536>>

\* whether the s64 is negative
IsNeg64(a) == a[4] >= 32768

\* (unsigned int)a: the low 32 bits
Low32(a) == <<a[1], a[2]>>

\* a + b in 64 bits; a signed overflow wraps (the kernel is built with
\* -fno-strict-overflow)
Add64(a, b) ==
    LET s1 == a[1] + b[1]
        s2 == a[2] + b[2] + (s1 \div 65536)
        s3 == a[3] + b[3] + (s2 \div 65536)
        s4 == a[4] + b[4] + (s3 \div 65536)
    IN  <<s1 % 65536, s2 % 65536, s3 % 65536, s4 % 65536>>

\* -a and a - b in 64 bits (wrapping)
Neg64(a) ==
    Add64(<<65535 - a[1], 65535 - a[2], 65535 - a[3], 65535 - a[4]>>, S64(1))

Sub64(a, b) == Add64(a, Neg64(b))

\* a * m in 64 bits (wrapping) for an integer m with |m| < 2^15
Mul64(a, m) ==
    LET k == IF m >= 0 THEN m ELSE -m
        p1 == a[1] * k
        p2 == a[2] * k + (p1 \div 65536)
        p3 == a[3] * k + (p2 \div 65536)
        p4 == a[4] * k + (p3 \div 65536)
        p == <<p1 % 65536, p2 % 65536, p3 % 65536, p4 % 65536>>
    IN  IF m >= 0 THEN p ELSE Neg64(p)

\* the u32 a signed divisor is converted to, as its two 16 bit parts
BaseHi(d) == IF d > 0 THEN d \div 65536 ELSE 65535 - ((-d - 1) \div 65536)

BaseLo(d) == IF d > 0 THEN d % 65536 ELSE 65535 - ((-d - 1) % 65536)

Pow2 == <<1, 2, 4, 8, 16, 32, 64, 128, 256, 512, 1024, 2048, 4096, 8192,
          16384, 32768>>

\* shift-and-subtract division of the u64 n by the u32 bh:bl, from bit k
\* down to bit 0, with remainder rh:rl so far and quotient q so far
RECURSIVE DivBits(_, _, _, _, _, _, _)
DivBits(n, bh, bl, k, rh, rl, q) ==
    IF k < 0 THEN q
    ELSE LET bit == (n[(k \div 16) + 1] \div Pow2[(k % 16) + 1]) % 2
             l2 == 2 * rl + bit
             h == 2 * rh + (l2 \div 65536)
             l == l2 % 65536
             ge == h > bh \/ (h = bh /\ l >= bl)
             borrow == IF l < bl THEN 1 ELSE 0
         IN  IF ge
             THEN DivBits(n, bh, bl, k - 1, h - bh - borrow,
                          l - bl + 65536 * borrow,
                          [q EXCEPT ![(k \div 16) + 1] = @ + Pow2[(k % 16) + 1]])
             ELSE DivBits(n, bh, bl, k - 1, h, l, q)

\* long division of the u64 n by a base below 2^15, 16 bits at a time
DivShort(n, base) ==
    LET c4 == n[4]
        c3 == (c4 % base) * 65536 + n[3]
        c2 == (c3 % base) * 65536 + n[2]
        c1 == (c2 % base) * 65536 + n[1]
    IN  <<c1 \div base, c2 \div base, c3 \div base, c4 \div base>>

\* do_div(n, base) as the macro computes it: n is taken as a u64 and base
\* as a u32, whatever their declared types; the quotient is left in n
do_div_u64(n, base) ==
    IF base > 0 /\ base < 32768
    THEN DivShort(n, base)
    ELSE DivBits(n, BaseHi(base), BaseLo(base), 63, 0, 0, Zero64)

\* the values "a / b" can leave behind: the quotient, or, when b is zero,
\* any of DivZeroResults.  The module is built for ARM kernels, where an
\* integer division by zero does not trap: __div0 logs it and the
\* division returns an unspecified quotient, so the call goes on.
Quotients(a, b) == IF b = 0 THEN DivZeroResults ELSE {TruncDiv(a, b)}

(* ------------------------------------------------------------------ *)
(* nvs_light_interpolate                                               *)
(* ------------------------------------------------------------------ *)

\* nvs_light_interpolate that returns y1 when x3 = x1
nvs_light_interpolate_y1(x1, x2, x3, y1, y3) ==
    LET divisor == x3 - x1
        product == Mul64(Sub64(x2, S64(x1)), y3 - y1)
        dividend == Add64(do_div_u64(product, divisor), S64(y1))
    IN  IF divisor = 0 THEN Low32(S64(y1))
        ELSE IF IsNeg64(dividend) THEN Zero32 ELSE Low32(dividend)

\* y2 = ((x2 - x1)(y3 - y1)/(x3 - x1)) + y1, clamped at zero; x2 itself
\* when x3 = x1.  x1, x3, y1, y3 are ints, x2 is an s64; the result is the
\* unsigned int returned.
nvs_light_interpolate(x1, x2, x3, y1, y3) ==
    LET divisor == x3 - x1
        product == Mul64(Sub64(x2, S64(x1)), y3 - y1)
        dividend == Add64(do_div_u64(product, divisor), S64(y1))
    IN  IF divisor = 0 THEN Low32(x2)
        ELSE IF IsNeg64(dividend) THEN Zero32 ELSE Low32(dividend)

(* ------------------------------------------------------------------ *)
(* nvs_light_nld: select entry i of the dynamic resolution table       *)
(* ------------------------------------------------------------------ *)

\* the fields of nl that nvs_light_nld writes
nvs_light_nld_nl(nl, i) == [nl EXCEPT !.nld_i = i, !.nld_i_change = TRUE]

\* the fields of nl->cfg that nvs_light_nld writes
nvs_light_nld_cfg(cfg, i) ==
    [cfg EXCEPT !.res_ival = nld_tbl[i].res_ival,
                !.res_fval = nld_tbl[i].res_fval,
                !.max_ival = nld_tbl[i].max_ival,
                !.max_fval = nld_tbl[i].max_fval,
                !.ma_ival = nld_tbl[i].ma_ival,
                !.ma_fval = nld_tbl[i].ma_fval,
                !.delay_us_min = nld_tbl[i].delay_min_ms * 1000]

(* ------------------------------------------------------------------ *)
(* nvs_light_read, step by step                                        *)
(* ------------------------------------------------------------------ *)

\* CalibrationReport without the calibration override
CalibrationReport_off(nl, cfg) == nl.report

\* calibration mode: always report, without the rate limit
CalibrationReport(nl, cfg) ==
    IF nl.calibration_en THEN cfg.report_n ELSE nl.report

\* RateLimit that also limits the first sample of a burst
RateLimit_first(report, nl, cfg) ==
    LET timestamp_diff == nl.timestamp - nl.timestamp_report
        delay == nl.delay_us * 1000
    IN  IF report <= cfg.report_n /\ timestamp_diff < delay
        THEN [report_delay_min |-> FALSE,
              poll_delay |-> do_div(delay - timestamp_diff, 1000)]
        ELSE [report_delay_min |-> TRUE, poll_delay |-> 0]

\* RateLimit that compares the elapsed ns with delay_us unconverted
RateLimit_us(report, nl, cfg) ==
    LET timestamp_diff == nl.timestamp - nl.timestamp_report
        delay == nl.delay_us
    IN  IF report < cfg.report_n /\ timestamp_diff < delay
        THEN [report_delay_min |-> FALSE,
              poll_delay |-> do_div(delay - timestamp_diff, 1000)]
        ELSE [report_delay_min |-> TRUE, poll_delay |-> 0]

\* the allowed report rate: report is the countdown after the calibration
\* step.  report_delay_min is FALSE when the sample came sooner than
\* delay_us after the last report; poll_delay is then the rest of the wait
\* in us.  The first sample of a burst (report = report_n) is not limited.
RateLimit(report, nl, cfg) ==
    LET timestamp_diff == nl.timestamp - nl.timestamp_report
        delay == nl.delay_us * 1000
    IN  IF report < cfg.report_n /\ timestamp_diff < delay
        THEN [report_delay_min |-> FALSE,
              poll_delay |-> do_div(delay - timestamp_diff, 1000)]
        ELSE [report_delay_min |-> TRUE, poll_delay |-> 0]

\* the local thresh_lo: the configured low delta
LocalThreshLo(cfg) == cfg.thresh_lo

\* the local thresh_hi: it is read from cfg->thresh_lo as well
LocalThreshHi(cfg) == cfg.thresh_lo

\* ThreshFlags whose hw_limit_hi leaves out the hw == hw_mask test
ThreshFlags_nomask(nl, cfg) ==
    LET lo0 == LocalThreshLo(cfg)
        hi0 == LocalThreshHi(cfg)
        valid_lo == lo0 < nl.hw_mask
        valid_hi == hi0 < nl.hw_mask
        thresh_lo == IF valid_lo THEN lo0 ELSE 0
        thresh_hi == IF valid_hi THEN hi0 ELSE 0
    IN  [thresh_lo |-> thresh_lo,
         thresh_hi |-> thresh_hi,
         thresh_valid_lo |-> valid_lo,
         thresh_valid_hi |-> valid_hi,
         thresholds_valid |-> (valid_lo /\ valid_hi),
         hw_limit_lo |-> ((nl.hw < thresh_lo) \/ (nl.hw = 0)),
         hw_limit_hi |-> (nl.hw > nl.hw_mask - thresh_hi)]

\* threshold flags and limit flags
ThreshFlags(nl, cfg) ==
    LET lo0 == LocalThreshLo(cfg)
        hi0 == LocalThreshHi(cfg)
        valid_lo == lo0 < nl.hw_mask
        valid_hi == hi0 < nl.hw_mask
        thresh_lo == IF valid_lo THEN lo0 ELSE 0
        thresh_hi == IF valid_hi THEN hi0 ELSE 0
    IN  [thresh_lo |-> thresh_lo,
         thresh_hi |-> thresh_hi,
         thresh_valid_lo |-> valid_lo,
         thresh_valid_hi |-> valid_hi,
         thresholds_valid |-> (valid_lo /\ valid_hi),
         hw_limit_lo |-> ((nl.hw < thresh_lo) \/ (nl.hw = 0)),
         hw_limit_hi |-> ((nl.hw = nl.hw_mask) \/ (nl.hw > nl.hw_mask - thresh_hi))]

\* ReportTrigger that does not arm the burst when there are no thresholds
ReportTrigger_keep(report, nl, cfg, f) ==
    IF nl.nld_i_change THEN cfg.report_n
    ELSE IF f.thresholds_valid
         THEN IF nl.hw < nl.hw_thresh_lo THEN cfg.report_n
              ELSE IF nl.hw > nl.hw_thresh_hi THEN cfg.report_n
              ELSE report
         ELSE report

\* reporting and thresholds: when the burst is armed again
ReportTrigger(report, nl, cfg, f) ==
    IF nl.nld_i_change THEN cfg.report_n
    ELSE IF f.thresholds_valid
         THEN IF nl.hw < nl.hw_thresh_lo THEN cfg.report_n
              ELSE IF nl.hw > nl.hw_thresh_hi THEN cfg.report_n
              ELSE report
         ELSE cfg.report_n

\* whether this call reports lux
Reports(report, rl) == report # 0 /\ rl.report_delay_min

\* the lux calculation divides NVS_SCALE_SIGNIFICANCE by cfg->scale.fval
\* whenever the resolution has an integer part
DividesByZero(cfg) == cfg.res_ival # 0 /\ cfg.scale_fval = 0

\* lux = HW * (resolution * NVS_SCALE_SIGNIFICANCE) / scale, calibrated:
\* every value the call can compute
LuxValues(nl, cfg) ==
    LET calc_f == IF cfg.res_fval # 0
                  THEN IF cfg.scale_fval # 0
                       THEN do_div(nl.hw * cfg.res_fval, cfg.scale_fval)
                       ELSE nl.hw * cfg.res_fval
                  ELSE 0
        calc_is == IF cfg.res_ival # 0
                   THEN {q * (nl.hw * cfg.res_ival) :
                            q \in Quotients(NVS_SCALE_SIGNIFICANCE, cfg.scale_fval)}
                   ELSE {0}
    IN  {nvs_light_interpolate(cfg.uncal_lo, S64(calc_i + calc_f), cfg.uncal_hi,
                               cfg.cal_lo, cfg.cal_hi) : calc_i \in calc_is}

\* calculate low threshold
NewThreshLo(nl, f) ==
    IF nl.hw - f.thresh_lo < 0 THEN 0 ELSE nl.hw - f.thresh_lo

\* NewThreshHi without the limit at hw_mask
NewThreshHi_nolimit(nl, f) == nl.hw + f.thresh_hi

\* calculate high threshold
NewThreshHi(nl, f) ==
    IF nl.hw + f.thresh_hi > nl.hw_mask THEN nl.hw_mask ELSE nl.hw + f.thresh_hi

\* NextNldI that tries the low limit before the high limit
NextNldI_lofirst(nl, f) ==
    IF ~nl.has_tbl THEN nl.nld_i
    ELSE IF f.hw_limit_lo /\ nl.nld_i > nl.nld_i_lo THEN nl.nld_i - 1
    ELSE IF f.hw_limit_hi /\ nl.nld_i < nl.nld_i_hi THEN nl.nld_i + 1
    ELSE nl.nld_i

\* dynamic resolution: the index the call moves to (nld_i when it stays)
NextNldI(nl, f) ==
    IF ~nl.has_tbl THEN nl.nld_i
    ELSE IF f.hw_limit_hi /\ nl.nld_i < nl.nld_i_hi THEN nl.nld_i + 1
    ELSE IF f.hw_limit_lo /\ nl.nld_i > nl.nld_i_lo THEN nl.nld_i - 1
    ELSE nl.nld_i

\* PollDelayMs without the clamp to cfg->delay_us_min
PollDelayMs_noclamp(nl, cfg, rl, changed, i) ==
    IF changed THEN nld_tbl[i].delay_min_ms
    ELSE LET p0 == IF rl.report_delay_min THEN nl.delay_us ELSE rl.poll_delay
             p1 == IF nl.calibration_en THEN cfg.delay_us_min ELSE p0
         IN  p1 \div 1000

\* poll time, in ms
PollDelayMs(nl, cfg, rl, changed, i) ==
    IF changed THEN nld_tbl[i].delay_min_ms
    ELSE LET p0 == IF rl.report_delay_min THEN nl.delay_us ELSE rl.poll_delay
             p1 == IF (p0 < cfg.delay_us_min) \/ nl.calibration_en
                   THEN cfg.delay_us_min ELSE p0
         IN  p1 \div 1000

\* ReturnValue in which new thresholds win over a resolution change
ReturnValue_update(report, nl, updated, changed) ==
    IF report # 0 \/ nl.calibration_en THEN RET_POLL_NEXT
    ELSE IF updated THEN RET_HW_UPDATE
    ELSE IF changed THEN RET_POLL_NEXT
    ELSE RET_NO_CHANGE

\* the return value
ReturnValue(report, nl, updated, changed) ==
    IF report # 0 \/ nl.calibration_en THEN RET_POLL_NEXT
    ELSE IF changed THEN RET_POLL_NEXT
    ELSE IF updated THEN RET_HW_UPDATE
    ELSE RET_NO_CHANGE

\* nvs_light_read on nl (hw and timestamp already placed in it), with lux
\* the value the lux calculation yields if the call reports
nvs_light_read(nl, cfg, lux) ==
    LET report0 == CalibrationReport(nl, cfg)
        rl == RateLimit(report0, nl, cfg)
        f == ThreshFlags(nl, cfg)
        report1 == ReportTrigger(report0, nl, cfg, f)
        reports == Reports(report1, rl)
        report2 == IF reports THEN report1 - 1 ELSE report1
        updated == reports /\ f.thresholds_valid /\ report2 = 0
        i == NextNldI(nl, f)
        changed == i # nl.nld_i
        nl1 == [nl EXCEPT
                  !.report = report2,
                  !.timestamp_report = IF reports THEN nl.timestamp ELSE @,
                  !.lux = IF reports THEN lux ELSE @,
                  !.thresh_valid_lo = f.thresh_valid_lo,
                  !.thresh_valid_hi = f.thresh_valid_hi,
                  !.thresholds_valid = f.thresholds_valid,
                  !.hw_limit_lo = f.hw_limit_lo,
                  !.hw_limit_hi = f.hw_limit_hi,
                  !.hw_thresh_lo = IF updated THEN NewThreshLo(nl, f) ELSE @,
                  !.hw_thresh_hi = IF updated THEN NewThreshHi(nl, f) ELSE @,
                  !.nld_i_change = FALSE,
                  !.poll_delay_ms = PollDelayMs(nl, cfg, rl, changed, i)]
    IN  [nl |-> IF changed THEN nvs_light_nld_nl(nl1, i) ELSE nl1,
         cfg |-> IF changed THEN nvs_light_nld_cfg(cfg, i) ELSE cfg,
         ret |-> ReturnValue(report2, nl, updated, changed),
         handler_calls |-> IF reports THEN 1 ELSE 0,
         thresh_written |-> updated,
         div0 |-> (reports /\ DividesByZero(cfg)),
         report_delay_min |-> rl.report_delay_min]

(* ------------------------------------------------------------------ *)
(* nvs_light_enable                                                    *)
(* ------------------------------------------------------------------ *)

\* NormalReportN that leaves a report_n of 0
NormalReportN_raw(n) == n

\* if (!nl->cfg->report_n) nl->cfg->report_n = 1
NormalReportN(n) == IF n = 0 THEN 1 ELSE n

\* calibration mode is scale 1 with no fractional part
CalibrationMode(cfg) == cfg.scale_ival = 1 /\ cfg.scale_fval = 0

nvs_light_enable(nl, cfg) ==
    LET cfg1 == [cfg EXCEPT !.report_n = NormalReportN(@)]
        nl1 == [nl EXCEPT !.report = cfg1.report_n,
                          !.timestamp_report = 0,
                          !.hw_thresh_hi = 0,
                          !.hw_thresh_lo = UINT_ONES,
                          !.calibration_en = CalibrationMode(cfg)]
    IN  IF nl.has_tbl
        THEN [nl |-> nvs_light_nld_nl(nl1, nl.nld_i_hi),
              cfg |-> nvs_light_nld_cfg(cfg1, nl.nld_i_hi),
              ret |-> 0]
        ELSE [nl |-> [nl1 EXCEPT !.poll_delay_ms = cfg.delay_us_min \div 1000],
              cfg |-> cfg1,
              ret |-> 0]

(* ------------------------------------------------------------------ *)
(* The state machine: one sensor, its driver calling the module        *)
(* ------------------------------------------------------------------ *)

VARIABLES
    nl,             \* struct nvs_light
    cfg,            \* struct sensor_cfg, nl->cfg
    op,             \* the last call: "init" (none yet), "enable", "read"
    ret,            \* what the last call returned
    handler_calls,  \* how often the last call invoked nl->handler
    div0,           \* whether the last call divided by zero
    thresh_written, \* whether the last call wrote hw_thresh_lo and hw_thresh_hi
    report_delay_min, \* the local report_delay_min at the end of the last read
    run,            \* the steady run of reads since the last enable (history)
    calc            \* the s64 calc that an Interpolate step calibrates

vars == <<nl, cfg, op, ret, handler_calls, div0, thresh_written,
          report_delay_min, run, calc>>

\* A steady run: the reads since the last nvs_light_enable, as long as all
\* of them carried the same hw, came at least delay_us after the one
\* before and changed no resolution index.  run.calls counts them,
\* run.reports those that invoked the handler; a run that is no longer
\* steady, or longer than MaxRun, is NoRun.
MaxRun == 4

NoRun == [calls |-> -1, reports |-> 0]

NextRun(old, new, reported) ==
    IF /\ run.calls >= 0
       /\ run.calls < MaxRun
       /\ new.nld_i = old.nld_i
       /\ \/ run.calls = 0
          \/ /\ new.hw = old.hw
             /\ new.timestamp - old.timestamp >= old.delay_us * 1000
    THEN [calls |-> run.calls + 1, reports |-> run.reports + reported]
    ELSE NoRun

\* the sensor_cfg a driver is probed with
Configs ==
    {[profile |-> p,
      cfg |-> [report_n |-> n, thresh_lo |-> th[1], thresh_hi |-> th[2],
               scale_ival |-> sc[1], scale_fval |-> sc[2],
               res_ival |-> p.res_ival, res_fval |-> p.res_fval,
               max_ival |-> 0, max_fval |-> 0, ma_ival |-> 0, ma_fval |-> 0,
               delay_us_min |-> p.delay_us_min,
               uncal_lo |-> p.anchors[1], uncal_hi |-> p.anchors[2],
               cal_lo |-> p.anchors[3], cal_hi |-> p.anchors[4]]] :
        p \in Profiles, n \in ReportNs, th \in Thresholds, sc \in Scales}

\* the zeroed struct nvs_light of a probed driver
Sensor(p, du) ==
    [hw |-> 0, hw_mask |-> HwMask, timestamp |-> 0, timestamp_report |-> 0,
     delay_us |-> du, report |-> 0, hw_thresh_lo |-> 0, hw_thresh_hi |-> 0,
     thresh_valid_lo |-> FALSE, thresh_valid_hi |-> FALSE,
     thresholds_valid |-> FALSE, hw_limit_lo |-> FALSE, hw_limit_hi |-> FALSE,
     nld_i |-> 0, nld_i_lo |-> p.nld_i_lo, nld_i_hi |-> p.nld_i_hi,
     nld_i_change |-> FALSE, has_tbl |-> p.has_tbl, calibration_en |-> FALSE,
     poll_delay_ms |-> 0, lux |-> Zero32]

Init ==
    /\ \E c \in Configs, du \in DelayUs :
         /\ nl = Sensor(c.profile, du)
         /\ cfg = c.cfg
    /\ op = "init"
    /\ ret = 0
    /\ handler_calls = 0
    /\ div0 = FALSE
    /\ thresh_written = FALSE
    /\ report_delay_min = TRUE
    /\ run = NoRun
    /\ calc = Zero64

\* the driver enables the device
Enable ==
    LET r == nvs_light_enable(nl, cfg)
    IN  /\ nl' = r.nl
        /\ cfg' = r.cfg
        /\ op' = "enable"
        /\ ret' = r.ret
        /\ handler_calls' = 0
        /\ div0' = FALSE
        /\ thresh_written' = TRUE
        /\ run' = [calls |-> 0, reports |-> 0]
        /\ UNCHANGED <<report_delay_min, calc>>

\* the driver reads the HW, places the value and the time in nl and calls
\* nvs_light_read; the clock has advanced by one of deltas and is within
\* horizon
ReadWithin(horizon, deltas) ==
    /\ op # "init"
    /\ \E hw \in 0..nl.hw_mask, d \in deltas :
         /\ nl.timestamp + d <= horizon
         /\ LET nl0 == [nl EXCEPT !.hw = hw, !.timestamp = @ + d]
            IN  \E lux \in LuxValues(nl0, cfg) :
                  LET r == nvs_light_read(nl0, cfg, lux)
                  IN  /\ nl' = r.nl
                      /\ cfg' = r.cfg
                      /\ op' = "read"
                      /\ ret' = r.ret
                      /\ handler_calls' = r.handler_calls
                      /\ div0' = r.div0
                      /\ thresh_written' = r.thresh_written
                      /\ report_delay_min' = r.report_delay_min
                      /\ run' = NextRun(nl, r.nl, r.handler_calls)
                      /\ UNCHANGED calc

Read == ReadWithin(MaxTime, Deltas)

Next == Enable \/ Read

Spec == Init /\ [][Next]_vars

\* The same sensor polled at the requested rate only (every sample comes
\* delay_us after the one before), with report_n = 3, over a horizon that
\* holds a whole burst and the sample after it.
BurstTime == 40000000

InitBurst == Init /\ cfg.report_n = 3

PolledRead == ReadWithin(BurstTime, {du * 1000 : du \in DelayUs})

NextBurst == Enable \/ PolledRead

SpecBurst == InitBurst /\ [][NextBurst]_vars

\* The same sensor, configured with report_n = 1 and scale 0.5, whose
\* driver is not interrupt driven part of the time: besides the samples
\* of Read there are samples taken exactly poll_delay_ms after the call
\* before, as the return value asks for.
InitPoll == Init /\ cfg.report_n = 1 /\ cfg.scale_fval # 0

TimedRead == ReadWithin(MaxTime, {nl.poll_delay_ms * 1000000})

NextPoll == Enable \/ Read \/ TimedRead

SpecPoll == InitPoll /\ [][NextPoll]_vars

\* A sensor with a dynamic resolution table whose readings have one more
\* value (hw_mask = HwMask + 1) and whose thresh_lo is HwMask, with
\* report_n = 1 and scale 0.5: a reading in the middle of the range is
\* then below thresh_lo and above hw_mask - thresh_lo at once.
InitRange ==
    /\ \E c \in Configs, du \in DelayUs :
         /\ c.profile.has_tbl
         /\ c.cfg.report_n = 1
         /\ c.cfg.scale_fval # 0
         /\ c.cfg.thresh_lo = HwMask
         /\ nl = [Sensor(c.profile, du) EXCEPT !.hw_mask = HwMask + 1]
         /\ cfg = c.cfg
    /\ op = "init"
    /\ ret = 0
    /\ handler_calls = 0
    /\ div0 = FALSE
    /\ thresh_written = FALSE
    /\ report_delay_min = TRUE
    /\ run = NoRun
    /\ calc = Zero64

SpecRange == InitRange /\ [][Next]_vars

\* nvs_light_interpolate on its own: the calibration step of the lux
\* calculation (lines 255-258) applied to chosen anchors and a chosen
\* calc.  Anchors and calc range over -InterpMax..InterpMax; besides there
\* are the anchors (0, 100, 0, 1000) with calc in 0..100, and anchors with
\* uncal_lo = uncal_hi with a calc of 2^32 and above: 6553500000 is the
\* calc of hw = 65535 at resolution 1.0 and scale 0.00001.
InterpMax == 2

InterpInputs ==
    LET R == -InterpMax..InterpMax
    IN  {[x1 |-> x1, x2 |-> S64(x2), x3 |-> x3, y1 |-> y1, y3 |-> y3] :
            x1 \in R, x2 \in R, x3 \in R, y1 \in R, y3 \in R}
        \cup {[x1 |-> 0, x2 |-> S64(x2), x3 |-> 100, y1 |-> 0, y3 |-> 1000] :
                 x2 \in 0..100}
        \cup {[x1 |-> x, x2 |-> x2, x3 |-> x, y1 |-> 0, y3 |-> y3] :
                 x \in {0, 100}, y3 \in {0, 1000},
                 x2 \in {<<0, 0, 1, 0>>, Mul64(Mul64(S64(65535), 10000), 10)}}

InitInterp ==
    /\ \E in \in InterpInputs, du \in DelayUs :
         LET c == CHOOSE c \in Configs :
                     /\ ~c.profile.has_tbl
                     /\ c.profile.res_ival = 0
                     /\ c.cfg.report_n = 1
                     /\ c.cfg.thresh_hi = 2
                     /\ c.cfg.scale_fval # 0
         IN  /\ nl = Sensor(c.profile, du)
             /\ cfg = [c.cfg EXCEPT !.uncal_lo = in.x1, !.uncal_hi = in.x3,
                                    !.cal_lo = in.y1, !.cal_hi = in.y3]
             /\ calc = in.x2
    /\ op = "init"
    /\ ret = 0
    /\ handler_calls = 0
    /\ div0 = FALSE
    /\ thresh_written = FALSE
    /\ report_delay_min = TRUE
    /\ run = NoRun

\* get calibrated value
Interpolate ==
    /\ op = "init"
    /\ op' = "interpolate"
    /\ nl' = [nl EXCEPT !.lux = nvs_light_interpolate(cfg.uncal_lo, calc,
                                                      cfg.uncal_hi, cfg.cal_lo,
                                                      cfg.cal_hi)]
    /\ UNCHANGED <<cfg, ret, handler_calls, div0, thresh_written,
                   report_delay_min, run, calc>>

NextInterp == Interpolate

SpecInterp == InitInterp /\ [][NextInterp]_vars

(* ------------------------------------------------------------------ *)
(* Properties                                                          *)
(* ------------------------------------------------------------------ *)

\* both configured thresholds are below hw_mask
ConfiguredValid == cfg.thresh_lo < nl.hw_mask /\ cfg.thresh_hi < nl.hw_mask

Max(a, b) == IF a >= b THEN a ELSE b

Min(a, b) == IF a <= b THEN a ELSE b

\* C1: the nvs_light_read call that directly follows nvs_light_enable
\* invokes the report handler exactly once, whatever hw, timestamp,
\* delay_us, thresholds and table are.
C1_FirstSampleReports ==
    [][(op = "enable" /\ op' = "read") => handler_calls' = 1]_vars

\* C1 witness: a first read after a repeated enable (the clock shows that
\* reads came before), which reported.
C1_Witness ==
    /\ op = "read"
    /\ run.calls = 1
    /\ nl.timestamp >= 12500000
    /\ handler_calls = 1
    /\ nl.timestamp_report = nl.timestamp

\* C2 (as claimed): report_n = 3, no calibration mode, valid thresholds,
\* a steady run since enable: each of the first 3 reads reports and the
\* 4th does not.
C2_BurstExhaustion ==
    (/\ op = "read"
     /\ cfg.report_n = 3
     /\ ~nl.calibration_en
     /\ ConfiguredValid
     /\ run.calls >= 1)
    => /\ run.calls <= 3 => (handler_calls = 1 /\ run.reports = run.calls)
       /\ run.calls = 4 => (handler_calls = 0 /\ run.reports = 3)

\* C3 (as claimed): without calibration mode and with delay_us = 10000, a
\* read that follows a reporting read by less than delay_us does not
\* report, and the poll delay it leaves is at most delay_us.
C3_RateLimitPollWithinPeriod ==
    [][(/\ op = "read" /\ handler_calls = 1 /\ op' = "read"
        /\ ~nl.calibration_en
        /\ nl.delay_us = 10000
        /\ nl'.timestamp - nl.timestamp >= 0
        /\ nl'.timestamp - nl.timestamp < nl.delay_us * 1000)
       => (/\ handler_calls' = 0
           /\ nl'.poll_delay_ms * 1000 <= nl.delay_us)]_vars

\* C3 (amended): such a read does not report, and the poll delay it leaves
\* is at most the larger of delay_us and the cfg->delay_us_min in force
\* after the call.
C3_RateLimit ==
    [][(/\ op = "read" /\ handler_calls = 1 /\ op' = "read"
        /\ ~nl.calibration_en
        /\ nl.delay_us = 10000
        /\ nl'.timestamp - nl.timestamp >= 0
        /\ nl'.timestamp - nl.timestamp < nl.delay_us * 1000)
       => (/\ handler_calls' = 0
           /\ nl'.poll_delay_ms * 1000 <= Max(nl.delay_us, cfg'.delay_us_min))]_vars

\* C3 witness: a read 2.5 ms after the reporting read before it, held back
\* by the rate limit although a threshold crossing armed the whole burst
\* again in this call.
C3_Witness ==
    /\ op = "read"
    /\ ~nl.calibration_en
    /\ nl.delay_us = 10000
    /\ nl.timestamp - nl.timestamp_report = 2500000
    /\ nl.timestamp_report > 0
    /\ ~report_delay_min
    /\ handler_calls = 0
    /\ ~nl.nld_i_change
    /\ ConfiguredValid
    /\ nl.hw > nl.hw_thresh_hi
    /\ nl.report = cfg.report_n

\* C4: with cfg->scale = 1.0 (calibration mode) every read invokes the
\* handler exactly once, returns poll-next and leaves the minimum poll
\* delay of the active resolution.
C4_CalibrationBypass ==
    (op = "read" /\ cfg.scale_ival = 1 /\ cfg.scale_fval = 0)
    => /\ handler_calls = 1
       /\ ret = RET_POLL_NEXT
       /\ nl.poll_delay_ms = cfg.delay_us_min \div 1000

\* C4 witness: in calibration mode, the second of two reads 2.5 ms apart
\* (far less than delay_us) reported, with hw inside the programmed window.
C4_Witness ==
    /\ op = "read"
    /\ cfg.scale_ival = 1 /\ cfg.scale_fval = 0
    /\ run = NoRun
    /\ nl.timestamp = 5000000
    /\ nl.delay_us = 10000
    /\ handler_calls = 1
    /\ nl.hw >= nl.hw_thresh_lo /\ nl.hw <= nl.hw_thresh_hi

\* C5 (as claimed): no call divides by zero.
C5_NoDivideByZero == div0 = FALSE

\* C6 (as claimed): a read that reports the last sample of a burst with
\* both configured thresholds valid leaves hw_thresh_lo = max(hw -
\* cfg->thresh_lo, 0) and hw_thresh_hi = min(hw + cfg->thresh_hi, hw_mask)
\* and sets the return value to hw-update (a resolution change of the same
\* call may replace it).
C6_WindowFromConfiguredDeltas ==
    (op = "read" /\ handler_calls = 1 /\ nl.report = 0 /\ ConfiguredValid)
    => /\ nl.hw_thresh_lo = Max(nl.hw - cfg.thresh_lo, 0)
       /\ nl.hw_thresh_hi = Min(nl.hw + cfg.thresh_hi, nl.hw_mask)
       /\ (~nl.nld_i_change => ret = RET_HW_UPDATE)

\* C7 (as claimed): after every read the validity flags are those of the
\* configured thresholds, each on its own, and hw_limit_hi tells that hw
\* is at hw_mask or within the valid cfg->thresh_hi of it.
C7_FlagsFromConfiguredThresholds ==
    op = "read"
    => /\ nl.thresh_valid_lo = (cfg.thresh_lo < nl.hw_mask)
       /\ nl.thresh_valid_hi = (cfg.thresh_hi < nl.hw_mask)
       /\ nl.thresholds_valid = ConfiguredValid
       /\ nl.hw_limit_hi = (\/ nl.hw = nl.hw_mask
                            \/ /\ cfg.thresh_hi < nl.hw_mask
                               /\ nl.hw > nl.hw_mask - cfg.thresh_hi)

\* C8: with cfg->thresh_lo >= hw_mask every read clears thresh_valid_lo
\* and thresholds_valid and arms the burst again, so that a read that
\* passes the rate limit reports (leaving report_n - 1) and one that does
\* not leaves report = report_n.
C8_ThresholdDisableSentinel ==
    (op = "read" /\ cfg.thresh_lo >= nl.hw_mask)
    => /\ ~nl.thresh_valid_lo
       /\ ~nl.thresholds_valid
       /\ report_delay_min => (handler_calls = 1 /\ nl.report = cfg.report_n - 1)
       /\ ~report_delay_min => (handler_calls = 0 /\ nl.report = cfg.report_n)

\* C8 witness: thresholds disabled, no calibration mode, no table: the
\* third read of a steady run still reports.
C8_Witness ==
    /\ op = "read"
    /\ cfg.thresh_lo >= nl.hw_mask
    /\ ~nl.calibration_en
    /\ ~nl.has_tbl
    /\ cfg.report_n = 1
    /\ run.calls = 2
    /\ run.reports = 2
    /\ handler_calls = 1

\* C9: with a table, a read with hw = hw_mask below nld_i_hi moves nld_i up
\* by one and returns poll-next; a read with hw = 0 above nld_i_lo moves it
\* down by one and returns poll-next; at nld_i_hi with hw = hw_mask, and at
\* nld_i_lo with hw = 0, nld_i stays.
C9_AutoRangingStep ==
    [][(op' = "read" /\ nl.has_tbl)
       => /\ (nl'.hw = nl.hw_mask /\ nl.nld_i < nl.nld_i_hi)
             => (nl'.nld_i = nl.nld_i + 1 /\ ret' = RET_POLL_NEXT)
          /\ (nl'.hw = 0 /\ nl.nld_i > nl.nld_i_lo)
             => (nl'.nld_i = nl.nld_i - 1 /\ ret' = RET_POLL_NEXT)
          /\ (nl'.hw = nl.hw_mask /\ nl.nld_i = nl.nld_i_hi)
             => nl'.nld_i = nl.nld_i
          /\ (nl'.hw = 0 /\ nl.nld_i = nl.nld_i_lo)
             => nl'.nld_i = nl.nld_i]_vars

\* C9 witness: a read with hw = hw_mask has just moved the index up, after
\* reads with hw = 0 had moved it down to nld_i_lo.
C9_Witness ==
    /\ op = "read"
    /\ nl.has_tbl
    /\ nl.hw = nl.hw_mask
    /\ nl.nld_i_change
    /\ nl.nld_i = nl.nld_i_lo + 1
    /\ nl.nld_i < nl.nld_i_hi
    /\ ret = RET_POLL_NEXT

\* C10 (as claimed): a read that returns 0 (no change) has not invoked the
\* report handler.
C10_NoChangeMeansNoReport ==
    (op = "read" /\ ret = RET_NO_CHANGE) => handler_calls = 0

\* C11: a read returns poll-next exactly when, at its end, report > 0 or
\* calibration mode is on or the resolution index changed in the call;
\* otherwise it returns hw-update exactly when the call wrote
\* hw_thresh_lo and hw_thresh_hi, and no-change in every other case.
C11_DispositionRule ==
    op = "read"
    => LET poll == nl.report > 0 \/ nl.calibration_en \/ nl.nld_i_change
       IN  /\ (ret = RET_POLL_NEXT) = poll
           /\ ~poll => (ret = RET_HW_UPDATE) = thresh_written
           /\ (~poll /\ ~thresh_written) => ret = RET_NO_CHANGE

\* C11 witness: a read that wrote new thresholds and moved the resolution
\* index in the same call, outside calibration mode with the burst over:
\* it returned poll-next.
C11_Witness ==
    /\ op = "read"
    /\ thresh_written
    /\ nl.nld_i_change
    /\ ~nl.calibration_en
    /\ nl.report = 0
    /\ ret = RET_POLL_NEXT

\* C14: after every read, poll_delay_ms is the new table entry's
\* delay_min_ms if the resolution index changed in the call; otherwise it
\* is floor(p / 1000) with p = cfg.delay_us_min in calibration mode, else
\* max(cfg.delay_us_min, delay_us) if the rate-limit gate was open, else
\* max(cfg.delay_us_min, remaining wait in us); so it is never below
\* floor(cfg.delay_us_min / 1000).
C14_PollDelay ==
    op = "read"
    => LET remaining == (nl.delay_us * 1000
                            - (nl.timestamp - nl.timestamp_report)) \div 1000
           p == IF nl.calibration_en THEN cfg.delay_us_min
                ELSE IF report_delay_min THEN Max(cfg.delay_us_min, nl.delay_us)
                ELSE Max(cfg.delay_us_min, remaining)
       IN  /\ nl.nld_i_change
                => nl.poll_delay_ms = nld_tbl[nl.nld_i].delay_min_ms
           /\ ~nl.nld_i_change => nl.poll_delay_ms = p \div 1000
           /\ nl.poll_delay_ms >= cfg.delay_us_min \div 1000

\* C14 witness: a rate-limited read outside calibration mode, without an
\* index change, whose remaining wait of 7500 us is above delay_us_min:
\* poll_delay_ms is 7.
C14_Witness ==
    /\ op = "read"
    /\ ~report_delay_min
    /\ ~nl.calibration_en
    /\ ~nl.nld_i_change
    /\ nl.timestamp - nl.timestamp_report = 2500000
    /\ cfg.delay_us_min = 5000
    /\ nl.poll_delay_ms = 7

\* C15: nvs_light_enable is an idempotent reset.  Whatever calls came
\* before, it leaves report = report_n >= 1, timestamp_report = 0,
\* hw_thresh_lo = all-ones, hw_thresh_hi = 0, nld_i = nld_i_hi when there
\* is a table and calibration_en = (scale = (1, 0)), and returns 0; a
\* second call right after it leaves the state the first one left.
C15_EnableIdempotentReset ==
    [][op' = "enable"
       => /\ nl'.report = cfg'.report_n
          /\ cfg'.report_n >= 1
          /\ nl'.timestamp_report = 0
          /\ nl'.hw_thresh_lo = UINT_ONES
          /\ nl'.hw_thresh_hi = 0
          /\ nl'.has_tbl => nl'.nld_i = nl'.nld_i_hi
          /\ nl'.calibration_en = (cfg'.scale_ival = 1 /\ cfg'.scale_fval = 0)
          /\ ret' = 0
          /\ nvs_light_enable(nl', cfg').nl = nl'
          /\ nvs_light_enable(nl', cfg').cfg = cfg'
          /\ nvs_light_enable(nl', cfg').ret = 0]_vars

\* C15 witness: the state after an nvs_light_enable that followed reads
\* (the clock has advanced and a reading is in nl->hw; every first read
\* set timestamp_report to its timestamp), with report_n normalised from 0.
C15_Witness ==
    /\ op = "enable"
    /\ nl.timestamp > 0
    /\ nl.hw > 0
    /\ nl.thresholds_valid
    /\ nl.timestamp_report = 0
    /\ nl.report = 1
    /\ nl.hw_thresh_lo = UINT_ONES

\* C20: a read writes hw_thresh_lo and hw_thresh_hi exactly when it
\* invokes the report handler, leaves report = 0 and has thresholds_valid
\* true; every other read leaves both unchanged; and a written window
\* satisfies hw_thresh_lo <= hw <= hw_thresh_hi <= hw_mask.
C20_ThresholdFrame ==
    [][op' = "read"
       => /\ thresh_written' = (/\ handler_calls' = 1
                                /\ nl'.report = 0
                                /\ nl'.thresholds_valid)
          /\ ~thresh_written' => /\ nl'.hw_thresh_lo = nl.hw_thresh_lo
                                 /\ nl'.hw_thresh_hi = nl.hw_thresh_hi
          /\ thresh_written' => /\ nl'.hw_thresh_lo <= nl'.hw
                                /\ nl'.hw <= nl'.hw_thresh_hi
                                /\ nl'.hw_thresh_hi <= nl'.hw_mask]_vars

\* C20 witness: a read of the top reading hw = hw_mask that reported, ended
\* the burst and wrote the window hw - 1 .. hw_mask, the high threshold
\* being limited at hw_mask.
C20_Witness ==
    /\ op = "read"
    /\ thresh_written
    /\ handler_calls = 1
    /\ nl.report = 0
    /\ nl.hw = nl.hw_mask
    /\ nl.hw_thresh_lo = nl.hw_mask - 1
    /\ nl.hw_thresh_hi = nl.hw_mask

\* C17: outside calibration mode, a read that invokes the report handler
\* after an earlier report since nvs_light_enable (timestamp_report > 0)
\* has a timestamp at least delay_us*1000 ns after that earlier report,
\* whatever crossings, rate-limited calls and index changes came between.
C17_MinimumReportSpacing ==
    [][(/\ op' = "read"
        /\ handler_calls' = 1
        /\ ~nl.calibration_en
        /\ nl.timestamp_report > 0)
       => nl'.timestamp - nl.timestamp_report >= nl.delay_us * 1000]_vars

\* C16 (as claimed, for report_n = 3): outside calibration mode, with
\* valid thresholds and no index change, when the caller keeps supplying
\* the same hw with timestamps delay_us apart after nvs_light_enable, the
\* burst completes: the 3rd read leaves report = 0, writes hw_thresh_lo
\* and hw_thresh_hi around hw and returns hw-update, and the read after
\* it returns no-change without reporting.
C16_BurstCompletion ==
    (/\ op = "read"
     /\ cfg.report_n = 3
     /\ ~nl.calibration_en
     /\ ConfiguredValid)
    => /\ run.calls = 3 => /\ nl.report = 0
                           /\ thresh_written
                           /\ nl.hw_thresh_lo <= nl.hw
                           /\ nl.hw <= nl.hw_thresh_hi
                           /\ ret = RET_HW_UPDATE
       /\ run.calls = 4 => /\ ret = RET_NO_CHANGE
                           /\ handler_calls = 0

\* C18 (as claimed): when a read is rate-limited with a report still
\* pending and no index change, poll_delay_ms covers the remaining wait:
\* the read made exactly poll_delay_ms later reports, and it does so no
\* sooner than delay_us after the report before.
C18_ShortenedPollSufficient ==
    [][(/\ op = "read"
        /\ ~report_delay_min
        /\ nl.report > 0
        /\ ~nl.nld_i_change
        /\ op' = "read"
        /\ nl'.timestamp = nl.timestamp + nl.poll_delay_ms * 1000000)
       => /\ report_delay_min'
          /\ handler_calls' = 1
          /\ nl'.timestamp - nl.timestamp_report >= nl.delay_us * 1000]_vars

\* C19: with a resolution table and nld_i_lo <= nld_i_hi, after
\* nvs_light_enable and after every read nld_i_lo <= nld_i <= nld_i_hi;
\* a read changes nld_i by at most 1, nld_i_change is true after it iff
\* nld_i changed in it, and when both saturation flags hold the index
\* moves up unless it is already at nld_i_hi.
C19_ResolutionIndex ==
    [][/\ (op' = "enable" /\ nl.has_tbl)
          => (nl'.nld_i_lo <= nl'.nld_i /\ nl'.nld_i <= nl'.nld_i_hi)
       /\ (op' = "read" /\ nl.has_tbl)
          => /\ nl'.nld_i_lo <= nl'.nld_i
             /\ nl'.nld_i <= nl'.nld_i_hi
             /\ nl'.nld_i - nl.nld_i \in {-1, 0, 1}
             /\ nl'.nld_i_change = (nl'.nld_i # nl.nld_i)
             /\ (nl'.hw_limit_hi /\ nl'.hw_limit_lo /\ nl.nld_i < nl.nld_i_hi)
                => nl'.nld_i = nl.nld_i + 1]_vars

\* C19 witness: a read with both saturation flags set that changed the
\* index and left it at nld_i_hi, i.e. moved it up from nld_i_hi - 1.
C19_Witness ==
    /\ op = "read"
    /\ nl.has_tbl
    /\ nl.hw_limit_hi
    /\ nl.hw_limit_lo
    /\ nl.nld_i_change
    /\ nl.nld_i = nl.nld_i_hi

\* whether the s64 holds an integer of magnitude below 2^31, and that
\* integer
IsInt32(a) ==
    \/ (a[3] = 0 /\ a[4] = 0 /\ a[2] < 32768)
    \/ (a[3] = 65535 /\ a[4] = 65535 /\ a[2] >= 32768)

IntOf(a) ==
    IF a[4] = 0 THEN a[1] + 65536 * a[2]
    ELSE -((65535 - a[1]) + 65536 * (65535 - a[2])) - 1

\* C12 (as claimed): for x3 # x1 nvs_light_interpolate returns
\* max(0, y1 + trunc((x2 - x1) * (y3 - y1) / (x3 - x1))), the division
\* being the signed truncating one, also where the product or the
\* divisor is negative; so interpolate(0, x2, 100, 0, 1000) = 10 * x2 for
\* x2 in 0..100 and a negative result is clamped to 0.
C12_InterpolationResult ==
    (/\ op = "interpolate"
     /\ cfg.uncal_hi # cfg.uncal_lo
     /\ IsInt32(calc))
    => nl.lux = U32(Max(0, cfg.cal_lo
                           + TruncDiv((IntOf(calc) - cfg.uncal_lo)
                                          * (cfg.cal_hi - cfg.cal_lo),
                                      cfg.uncal_hi - cfg.uncal_lo)))

\* C13 (as claimed): for x1 = x3 nvs_light_interpolate returns x2, for
\* every s64 x2 the lux calculation can hand over.
C13_IdentityInterpolation ==
    (op = "interpolate" /\ cfg.uncal_hi = cfg.uncal_lo)
    => <<nl.lux[1], nl.lux[2], 0, 0>> = calc

\* C13 (amended): for x1 = x3 nvs_light_interpolate returns
\* (unsigned int)x2, the low 32 bits of x2, whatever y1 and y3 are; that
\* is x2 itself when 0 <= x2 < 2^32.
C13_IdentityLow32 ==
    (op = "interpolate" /\ cfg.uncal_hi = cfg.uncal_lo)
    => /\ nl.lux = Low32(calc)
       /\ (calc[3] = 0 /\ calc[4] = 0) => <<nl.lux[1], nl.lux[2], 0, 0>> = calc

\* C13 witness: anchors with uncal_lo = uncal_hi and cal_lo # cal_hi, a
\* calc of 6553500000 = 2^32 + 2258532704, and the lux 2258532704
\* (34462 * 65536 + 31072) returned for it.
C13_Witness ==
    /\ op = "interpolate"
    /\ cfg.uncal_hi = cfg.uncal_lo
    /\ cfg.cal_hi # cfg.cal_lo
    /\ calc = <<31072, 34462, 1, 0>>
    /\ nl.lux = <<31072, 34462>>

====
